---- MODULE Spec2Model ----
(***************************************************************************)
(* A model of ProjectContour: the automatic zoom selection of route.py,    *)
(* the terrain and route-ribbon face lists of mesh_builder.py, the export  *)
(* pipeline of mesh_generator.py, the tile fetching and stitching of       *)
(* tile_client.py and heightmap.py, and the route carving, downsampling    *)
(* and print scaling of mesh_builder.py called on their own.               *)
(*                                                                         *)
(* Units.  Longitudes and latitudes are integers in hundredths of a        *)
(* degree, resolutions and mesh coordinates are integers in metres; the    *)
(* elevations of the height map are tenths of a metre and the lengths of   *)
(* the carving runs are centimetres.                                       *)
(***************************************************************************)
EXTENDS Integers, Sequences, FiniteSets, TLC

VARIABLES
    \* ---- route.py / main.py: zoom selection
    bbox,           \* BBox_LL: [min_longitude, min_latitude, max_longitude, max_latitude]
    model_res,      \* ModelResolution.meters
    max_tiles,      \* the max_tiles argument of _compute_auto_zoom
    zoom,           \* the loop variable of _compute_auto_zoom
    optimum_zoom,   \* the local optimum_zoom of _compute_auto_zoom
    zoom_value,     \* ZoomLevel.value as returned by ZoomLevel.new (0 before)
    tiles,          \* main's `tiles` (the covering rectangle), NoTiles before
    zpc             \* position in main / _compute_auto_zoom

VARIABLES
    \* ---- mesh_generator.py: MeshGenerator and the arguments of export_meshes
    terrain,        \* Terrain_ENU: [height, width, spacing, u_grid]
    route_len,      \* len(route_enu.e)
    base_height,    \* export_meshes(base_height)
    target_size_mm, \* export_meshes(target_size_mm)
    \* ---- mesh_builder.py: create_terrain_mesh
    grid,           \* the arrays passed in: [height, width, e, n, u]
    vertices,       \* top-surface vertices
    faces,          \* top-surface faces
    base_vertices,  \* the projected base vertices
    bottom_faces,   \* the flipped, offset bottom faces
    side_faces,     \* the wall faces
    terrain_mesh,   \* the terrain Trimesh: [vertices, faces, scale]
    \* ---- mesh_builder.py: create_route_ribbon_mesh
    n_points,       \* samples kept after the downsampling
    ribbon_i,       \* the loop variable i of the sample loop
    ribbon_nverts,  \* len(vertices) of the ribbon
    ribbon_faces,   \* the ribbon's face list
    route_mesh,     \* the route Trimesh: [nverts, faces, scale]
    \* ---- the run
    exported,       \* the names of the files written so far
    mpc             \* position in export_meshes

zvars == <<bbox, model_res, max_tiles, zoom, optimum_zoom, zoom_value, tiles, zpc>>

inputs == <<terrain, route_len, base_height, target_size_mm>>
tvars == <<grid, vertices, faces, base_vertices, bottom_faces, side_faces, terrain_mesh>>
rvars == <<n_points, ribbon_i, ribbon_nverts, ribbon_faces, route_mesh>>
mvars == <<inputs, tvars, rvars, exported, mpc>>

VARIABLES
    \* ---- main.py: the route and the --zoom option
    route_ll,       \* Route_LL: the sequence of [lon, lat] points
    manual_zoom,    \* --zoom: [given, value], given = FALSE for None
    \* ---- heightmap.py / tile_client.py: create_heightmap_from_tiles
    tile_coords,    \* the tile_coords argument: a sequence of RasterTile
    cache,          \* TileCache: the cached bytes of each cached tile
    fetch_calls,    \* calls of fetch_tile made by the caller so far
    http_requests,  \* HTTP GET requests sent so far
    cache_writes,   \* calls of TileCache.set so far
    fetch_k,        \* index of the tile the fetch loop is at
    tiles_data,     \* the local dict `tiles`: (x, y) -> fetched image
    heightmap,      \* the stitched grid, NoHeightmap before
    hpc,            \* position in create_heightmap_from_tiles
    fetched,        \* per tile, the bytes each fetch_tile call returned,
                    \* from the first call answered with status 200 on
    \* ---- mesh_builder.py: the route arguments of create_terrain_mesh
    route_en,       \* route_e, route_n: the sequence of [e, n] samples
    route_width,    \* route_width
    route_depth,    \* route_depth
    carve_k,        \* index of the grid point the carving loop is at
    u_at_call,      \* the values the caller's array held at the call
    \* ---- the exception a run ended with
    error           \* [type, msg], NoError while none was raised

pvars == <<route_ll, manual_zoom>>
hvars == <<tile_coords, cache, fetch_calls, http_requests, cache_writes,
           fetch_k, tiles_data, heightmap, hpc, fetched>>
cvars == <<route_en, route_width, route_depth, carve_k, u_at_call>>
xvars == <<pvars, hvars, cvars, error>>

vars == <<zvars, mvars, xvars>>

NoError == [type |-> "", msg |-> ""]
TooManyIndices == [type |-> "IndexError", msg |-> "too many indices for array"]
TooFewRoutePoints == [type |-> "ValueError", msg |-> "Route must have at least 2 points"]
NoHeightmap == [height |-> 0, width |-> 0, patches |-> <<>>]
NoManualZoom == [given |-> FALSE, value |-> 0]

\* The route and --zoom variables while another part runs.
RouteIdle ==
    /\ route_ll = <<>>
    /\ manual_zoom = NoManualZoom

\* The heightmap variables while another part runs.
HeightmapIdle ==
    /\ tile_coords = <<>>
    /\ cache = <<>>
    /\ fetch_calls = 0
    /\ http_requests = 0
    /\ cache_writes = 0
    /\ fetch_k = 0
    /\ tiles_data = <<>>
    /\ heightmap = NoHeightmap
    /\ hpc = "idle"
    /\ fetched = <<>>

\* The carving variables when create_terrain_mesh gets no route.
CarveIdle ==
    /\ route_en = <<>>
    /\ route_width = 0
    /\ route_depth = 0
    /\ carve_k = 0
    /\ u_at_call = <<>>

(***************************************************************************)
(* Numbers                                                                 *)
(***************************************************************************)
FallbackZoom == 15
FirstZoom == 1
LastZoom == 15
TilePixels == 256
DefaultMaxTiles == 1000

RECURSIVE Pow2(_)
Pow2(k) == IF k = 0 THEN 1 ELSE 2 * Pow2(k - 1)

\* Python's int(): truncation toward zero of num/den (den > 0).
IntTrunc(num, den) == IF num >= 0 THEN num \div den ELSE -((-num) \div den)

Min2(a, b) == IF a <= b THEN a ELSE b
Max2(a, b) == IF a >= b THEN a ELSE b

(***************************************************************************)
(* coordinate_transform.py: LonLatToRasterTile.lonlat_to_tile              *)
(***************************************************************************)
\* Latitudes the model draws bounding boxes from (hundredths of a degree).
Latitudes == {-6000, -100, 0, 15, 100, 4500}
\* Longitudes the model draws bounding boxes from (hundredths of a degree).
Longitudes == {-18000, -100, 0, 3, 40, 100, 9000}

\* MercatorUnit is the denominator of the tabulated Mercator fraction.
MercatorUnit == Pow2(15)

\* (1 - asinh(tan(radians(lat))) / pi) / 2, as a multiple of 1/MercatorUnit
\* truncated toward zero.  int(f * 2^zoom) = int(int(f * 2^15) * 2^zoom / 2^15)
\* for every zoom <= 15, so the truncation loses nothing that lonlat_to_tile
\* keeps.
\* The second group holds the latitudes of the tile edges of zooms 0 to 4,
\* named by their value rounded to a hundredth of a degree: there the
\* fraction is a whole number of sixteenths.
MercatorFraction ==
    (-6000 :> 23252) @@ (-100 :> 16475) @@ (0 :> 16384) @@ (15 :> 16370) @@
    (100 :> 16292) @@ (4500 :> 11787) @@
    (8505 :> 0) @@ (8268 :> 2048) @@ (7917 :> 4096) @@ (7402 :> 6144) @@
    (6651 :> 8192) @@ (5578 :> 10240) @@ (4098 :> 12288) @@ (2194 :> 14336) @@
    (-2194 :> 18432) @@ (-4098 :> 20480) @@ (-5578 :> 22528) @@
    (-6651 :> 24576) @@ (-7402 :> 26624) @@ (-7917 :> 28672) @@ (-8268 :> 30720) @@
    (-8505 :> 32768)

lonlat_to_tile(lon, lat, z) ==
    LET n == Pow2(z)
        x_tile == IntTrunc((lon + 18000) * n, 36000)
        y_tile == IntTrunc(MercatorFraction[lat] * n, MercatorUnit)
    IN  [zoom |-> z, x |-> x_tile, y |-> y_tile]

(***************************************************************************)
(* route.py: BBox_LL                                                       *)
(***************************************************************************)
\* Twice the central latitude (the division by 2 is folded into the table
\* GroundCircumference, which is indexed by min_latitude + max_latitude).
central_latitude_x2(b) == b.min_latitude + b.max_latitude

\* tiles_to_cover without the min/max of line 94-95: the rectangle runs from
\* the tile of the (min_lon, min_lat) corner to that of the other corner.
tiles_to_cover_corner_order(b, z) ==
    LET min_tile == lonlat_to_tile(b.min_longitude, b.min_latitude, z)
        max_tile == lonlat_to_tile(b.max_longitude, b.max_latitude, z)
    IN  [zoom  |-> z,
         min_x |-> min_tile.x,
         max_x |-> max_tile.x,
         min_y |-> min_tile.y,
         max_y |-> max_tile.y]

\* tiles_to_cover returns the list of RasterTile(zoom, x, y) for
\* x in min_x..max_x, y in min_y..max_y; the model keeps the rectangle.
tiles_to_cover(b, z) ==
    LET min_tile == lonlat_to_tile(b.min_longitude, b.min_latitude, z)
        max_tile == lonlat_to_tile(b.max_longitude, b.max_latitude, z)
    IN  [zoom  |-> z,
         min_x |-> Min2(min_tile.x, max_tile.x),
         max_x |-> Max2(min_tile.x, max_tile.x),
         min_y |-> Min2(min_tile.y, max_tile.y),
         max_y |-> Max2(min_tile.y, max_tile.y)]

\* len(tiles) of a tiles_to_cover result.
NumTiles(t) == (t.max_x - t.min_x + 1) * (t.max_y - t.min_y + 1)

\* Membership of RasterTile(z, x, y) in a tiles_to_cover result.
TileIn(t, z, x, y) ==
    /\ t.zoom = z
    /\ t.min_x <= x /\ x <= t.max_x
    /\ t.min_y <= y /\ y <= t.max_y

NoTiles == [zoom |-> 0, min_x |-> 0, max_x |-> -1, min_y |-> 0, max_y |-> -1]

(***************************************************************************)
(* route.py: ZoomLevel._compute_auto_zoom                                  *)
(***************************************************************************)
\* EARTH_CIRCUMFERENCE_M * cos(radians(central_latitude)), in metres rounded
\* to the nearest integer, indexed by twice the central latitude.
GroundCircumference ==
    (-12000 :> 20037509) @@ (-6100 :> 34529803) @@ (-6000 :> 34705983) @@
    (-5985 :> 34732182) @@ (-5900 :> 34879519) @@ (-1500 :> 39732170) @@
    (-200 :> 40068913) @@ (-100 :> 40073491) @@ (-85 :> 40073915) @@
    (0 :> 40075017) @@ (15 :> 40074983) @@ (30 :> 40074880) @@
    (100 :> 40073491) @@ (115 :> 40072999) @@ (200 :> 40068913) @@
    (4400 :> 37156909) @@ (4500 :> 37024488) @@ (4515 :> 37004381) @@
    (4600 :> 36889248) @@ (9000 :> 28337316)

\* meters_per_pixel <= model_res.meters, where
\*   meters_per_pixel = circumference * cos(lat) / (256 * 2^zoom).
\* For an integer number of metres r, a / b <= r iff ceil(a / b) <= r.
MetersPerPixelLeq(b, z, res) ==
    LET a == GroundCircumference[central_latitude_x2(b)]
        d == TilePixels * Pow2(z)
    IN  (a + d - 1) \div d <= res

\* The condition of line 27.
ZoomFits(b, z, res, budget) ==
    /\ MetersPerPixelLeq(b, z, res)
    /\ NumTiles(tiles_to_cover(b, z)) <= budget

\* The condition of line 25.
OverBudget(b, z, budget) == NumTiles(tiles_to_cover(b, z)) > budget

\* ScanZoom with the assignment of line 28 guarded so that only the first
\* fitting zoom is kept (a scan that does not go on to the finest one).
ScanZoomKeepsFirst ==
    /\ zpc = "scan"
    /\ IF OverBudget(bbox, zoom, max_tiles)
       THEN /\ zpc' = "return"
            /\ UNCHANGED <<zoom, optimum_zoom>>
       ELSE /\ optimum_zoom' = IF /\ ZoomFits(bbox, zoom, model_res, max_tiles)
                                  /\ \A z \in FirstZoom..(zoom - 1) :
                                        ~ZoomFits(bbox, z, model_res, max_tiles)
                               THEN zoom ELSE optimum_zoom
            /\ IF zoom = LastZoom
               THEN zpc' = "return" /\ UNCHANGED zoom
               ELSE zpc' = "scan" /\ zoom' = zoom + 1
    /\ UNCHANGED <<bbox, model_res, max_tiles, zoom_value, tiles>>
    /\ UNCHANGED <<xvars, mvars>>

\* ScanZoom with the break of line 26 also storing the zoom it stopped at.
ScanZoomBreakStores ==
    /\ zpc = "scan"
    /\ IF OverBudget(bbox, zoom, max_tiles)
       THEN /\ zpc' = "return"
            /\ optimum_zoom' = zoom - 1
            /\ UNCHANGED zoom
       ELSE /\ optimum_zoom' = IF ZoomFits(bbox, zoom, model_res, max_tiles)
                               THEN zoom ELSE optimum_zoom
            /\ IF zoom = LastZoom
               THEN zpc' = "return" /\ UNCHANGED zoom
               ELSE zpc' = "scan" /\ zoom' = zoom + 1
    /\ UNCHANGED <<bbox, model_res, max_tiles, zoom_value, tiles>>
    /\ UNCHANGED <<xvars, mvars>>

\* One iteration of `for zoom in range(1, 16)`.
ScanZoom ==
    /\ zpc = "scan"
    /\ IF OverBudget(bbox, zoom, max_tiles)
       THEN /\ zpc' = "return"
            /\ UNCHANGED <<zoom, optimum_zoom>>
       ELSE /\ optimum_zoom' = IF ZoomFits(bbox, zoom, model_res, max_tiles)
                               THEN zoom ELSE optimum_zoom
            /\ IF zoom = LastZoom
               THEN zpc' = "return" /\ UNCHANGED zoom
               ELSE zpc' = "scan" /\ zoom' = zoom + 1
    /\ UNCHANGED <<bbox, model_res, max_tiles, zoom_value, tiles>>
    /\ UNCHANGED <<xvars, mvars>>

\* `return optimum_zoom` and ZoomLevel.new's `return cls(value=auto_zoom)`.
ReturnZoom ==
    /\ zpc = "return"
    /\ zoom_value' = optimum_zoom
    /\ zpc' = "cover"
    /\ UNCHANGED <<bbox, model_res, max_tiles, zoom, optimum_zoom, tiles>>
    /\ UNCHANGED <<xvars, mvars>>

\* main.py line 30: tiles = bbox_ll.tiles_to_cover(zoom.value, ...).
CoverTiles ==
    /\ zpc = "cover"
    /\ tiles' = tiles_to_cover(bbox, zoom_value)
    /\ zpc' = "done"
    /\ UNCHANGED <<bbox, model_res, max_tiles, zoom, optimum_zoom, zoom_value>>
    /\ UNCHANGED <<xvars, mvars>>

\* Required resolutions (metres per model voxel) the model draws from.
Resolutions == {0, 5, 20, 150, 2500, 80000}
\* Tile budgets the model draws from; ZoomLevel.new passes DefaultMaxTiles.
Budgets == {1, 50, DefaultMaxTiles}

BBoxes ==
    {[min_longitude |-> lo1, min_latitude |-> la1,
      max_longitude |-> lo2, max_latitude |-> la2] :
        <<lo1, lo2, la1, la2>> \in
            {q \in Longitudes \X Longitudes \X Latitudes \X Latitudes :
                q[1] <= q[2] /\ q[3] <= q[4]}}

\* The mesh variables while the zoom selection runs (export_meshes has not
\* been entered).
MeshIdle ==
    /\ terrain = [height |-> 0, width |-> 0, spacing |-> 0, u_grid |-> <<>>]
    /\ route_len = 0
    /\ base_height = 0
    /\ target_size_mm = 0
    /\ grid = <<>>
    /\ vertices = <<>>
    /\ faces = <<>>
    /\ base_vertices = <<>>
    /\ bottom_faces = <<>>
    /\ side_faces = <<>>
    /\ terrain_mesh = <<>>
    /\ n_points = 0
    /\ ribbon_i = 0
    /\ ribbon_nverts = 0
    /\ ribbon_faces = <<>>
    /\ route_mesh = <<>>
    /\ exported = {}
    /\ mpc = "idle"

InitZoom ==
    /\ MeshIdle
    /\ RouteIdle /\ HeightmapIdle /\ CarveIdle /\ error = NoError
    /\ bbox \in BBoxes
    /\ model_res \in Resolutions
    /\ max_tiles \in Budgets
    /\ zoom = FirstZoom
    /\ optimum_zoom = FallbackZoom
    /\ zoom_value = 0
    /\ tiles = NoTiles
    /\ zpc = "scan"

NextZoom == ScanZoom \/ ReturnZoom \/ CoverTiles

SpecZoom == InitZoom /\ [][NextZoom]_vars

(***************************************************************************)
(* Properties of the zoom selection                                        *)
(***************************************************************************)
\* The zooms of the scanned range that meet both the resolution and the
\* budget condition.
FittingZooms(b, res, budget) ==
    {z \in FirstZoom..LastZoom : ZoomFits(b, z, res, budget)}

SetMax(S) == CHOOSE m \in S : \A k \in S : k <= m

\* C1: with the budget of 1000 tiles, whenever some zoom in 1..15 meets both
\* the resolution and the budget condition, the zoom returned by the auto
\* selection is the largest such zoom.
AutoZoomIsFinestFitting ==
    (zpc \in {"cover", "done"} /\ max_tiles = DefaultMaxTiles
        /\ FittingZooms(bbox, model_res, max_tiles) # {})
    => zoom_value = SetMax(FittingZooms(bbox, model_res, max_tiles))

\* C1 witness: a finished selection with budget 1000 where the scan stopped
\* at an over-budget zoom and the finest fitting zoom, below 15, was returned
\* after a coarser fitting zoom had been seen.
AutoZoomFinestWitness ==
    /\ zpc = "done"
    /\ max_tiles = DefaultMaxTiles
    /\ Cardinality(FittingZooms(bbox, model_res, max_tiles)) >= 2
    /\ zoom_value = SetMax(FittingZooms(bbox, model_res, max_tiles))
    /\ zoom_value < LastZoom
    /\ OverBudget(bbox, zoom, max_tiles)

\* C2: the zoom returned by the auto selection needs at most max_tiles tiles
\* to cover the bounding box.
ReturnedZoomWithinBudget ==
    zpc = "done" => NumTiles(tiles) <= max_tiles

\* C3: the selection returns a zoom in 1..15 after scanning zooms within
\* 1..15 only, and when none of the scanned zooms 1..zoom met both
\* conditions the result is the fallback zoom 15.
AutoZoomNeverFails ==
    /\ zoom \in FirstZoom..LastZoom
    /\ optimum_zoom \in FirstZoom..LastZoom
    /\ zpc \in {"cover", "done"} =>
          /\ zoom_value \in FirstZoom..LastZoom
          /\ (\A z \in FirstZoom..zoom :
                 ~ZoomFits(bbox, z, model_res, max_tiles)) => zoom_value = 15

\* C3 witness: the scan stopped at an over-budget zoom above 1 before any
\* zoom met the resolution, and the fallback zoom was returned.
AutoZoomFallbackWitness ==
    /\ zpc = "done"
    /\ zoom > FirstZoom
    /\ OverBudget(bbox, zoom, max_tiles)
    /\ \A z \in FirstZoom..zoom : ~ZoomFits(bbox, z, model_res, max_tiles)
    /\ zoom_value = FallbackZoom


(***************************************************************************)
(* Meshes                                                                  *)
(*                                                                         *)
(* A face is a triple of 0-based vertex indices, as in the source.  A mesh *)
(* keeps its unscaled vertices and the factor apply_scale has multiplied   *)
(* them by, as a fraction num/den, so that scaled coordinates stay exact.  *)
(***************************************************************************)
MaxGrid == 3
MaxRouteLen == 4
MeshMaxResolution == 500
RibbonMaxSamples == 500
MillimetresPerMetre == 1000

Cells(h, w) == (0..(h - 1)) \X (0..(w - 1))

RECURSIVE SeqMin(_, _)
SeqMin(sq, k) ==
    IF k = 1 THEN sq[1] ELSE Min2(sq[k], SeqMin(sq, k - 1))
RECURSIVE SeqMax(_, _)
SeqMax(sq, k) ==
    IF k = 1 THEN sq[1] ELSE Max2(sq[k], SeqMax(sq, k - 1))

\* numpy's a.min() / a.max() over the flattened grid `a` of shape (h, w).
GridMin(a, h, w) == SeqMin([k \in 1..(h * w) |-> a[<<(k - 1) \div w, (k - 1) % w>>]], h * w)
GridMax(a, h, w) == SeqMax([k \in 1..(h * w) |-> a[<<(k - 1) \div w, (k - 1) % w>>]], h * w)

\* Terrain_ENU.e_grid / n_grid of a regular grid: east grows with the
\* column, north falls with the row (tile rows run southward).
e_grid(t) == [c \in Cells(t.height, t.width) |-> c[2] * t.spacing]
n_grid(t) == [c \in Cells(t.height, t.width) |-> -(c[1] * t.spacing)]

\* a[::step, ::step] of a grid `a` of shape (h, w).
SlicedLen(len, step) == (len + step - 1) \div step
Sliced(a, h, w, step) ==
    [c \in Cells(SlicedLen(h, step), SlicedLen(w, step)) |->
        a[<<c[1] * step, c[2] * step>>]]

(***************************************************************************)
(* mesh_builder.py: create_terrain_mesh                                    *)
(***************************************************************************)
\* Lines 58-63.
TopVertices(g) ==
    [k \in 1..(g.height * g.width) |->
        LET c == <<(k - 1) \div g.width, (k - 1) % g.width>>
        IN  <<g.e[c], g.n[c], g.u[c]>>]

\* Lines 66-76: two triangles per grid square, squares in row-major order.
TopFaces(height, width) ==
    [k \in 1..(2 * (height - 1) * (width - 1)) |->
        LET q   == (k - 1) \div 2
            i   == q \div (width - 1)
            j   == q % (width - 1)
            idx == i * width + j
        IN  IF (k - 1) % 2 = 0
            THEN <<idx, idx + width, idx + 1>>
            ELSE <<idx + 1, idx + width, idx + width + 1>>]

\* Lines 82-87.
BaseVertices(vs, base_z) == [k \in DOMAIN vs |-> <<vs[k][1], vs[k][2], base_z>>]

\* BottomFaces without the index offset of line 93.
BottomFacesNoOffset(fs, nv) ==
    [k \in DOMAIN fs |-> <<fs[k][3], fs[k][2], fs[k][1]>>]

\* Lines 90-93: faces[:, ::-1] + len(vertices).
BottomFaces(fs, nv) ==
    [k \in DOMAIN fs |-> <<fs[k][3] + nv, fs[k][2] + nv, fs[k][1] + nv>>]

\* The two windings the wall loops use for the quad (top_idx1, top_idx2,
\* bot_idx1, bot_idx2).
WallA(t1, t2, nv, second) ==
    IF second THEN <<t2, t1 + nv, t2 + nv>> ELSE <<t1, t1 + nv, t2>>
WallB(t1, t2, nv, second) ==
    IF second THEN <<t2, t2 + nv, t1 + nv>> ELSE <<t1, t2, t1 + nv>>

\* Lines 99-106: "Top edge (j=width-1)".
TopEdgeFaces(height, width, nv) ==
    [k \in 1..(2 * (height - 1)) |->
        LET i == (k - 1) \div 2
        IN  WallA(i * width + (width - 1), (i + 1) * width + (width - 1), nv,
                  (k - 1) % 2 = 1)]

\* Lines 108-115: "Right edge (i=height-1)".
RightEdgeFaces(height, width, nv) ==
    [k \in 1..(2 * (width - 1)) |->
        LET j == (k - 1) \div 2
        IN  WallB((height - 1) * width + j, (height - 1) * width + (j + 1), nv,
                  (k - 1) % 2 = 1)]

\* Lines 117-124: "Bottom edge (j=0)".
BottomEdgeFaces(height, width, nv) ==
    [k \in 1..(2 * (height - 1)) |->
        LET i == (k - 1) \div 2
        IN  WallB(i * width, (i + 1) * width, nv, (k - 1) % 2 = 1)]

\* Lines 126-133: "Left edge (i=0)".
LeftEdgeFaces(height, width, nv) ==
    [k \in 1..(2 * (width - 1)) |->
        LET j == (k - 1) \div 2
        IN  WallA(j, j + 1, nv, (k - 1) % 2 = 1)]

UnitScale == [num |-> 1, den |-> 1]

(***************************************************************************)
(* mesh_builder.py: scale_mesh_for_printing                                *)
(***************************************************************************)
\* max(bounds[1] - bounds[0]) over the unscaled vertices.
MaxExtent(vs) ==
    LET n   == Len(vs)
        ext(a) == SeqMax([k \in 1..n |-> vs[k][a]], n) - SeqMin([k \in 1..n |-> vs[k][a]], n)
    IN  Max2(ext(1), Max2(ext(2), ext(3)))

\* Trimesh.apply_scale: every coordinate is multiplied by f.
apply_scale(mesh, f) ==
    [mesh EXCEPT !.scale = [num |-> @.num * f.num, den |-> @.den * f.den]]

\* Lines 182-187: the mesh's largest dimension is MaxExtent * scale, and
\* scale_factor = target_size_mm / (max_size_m * 1000).
PrintScaleFactor(mesh, target) ==
    [num |-> target * mesh.scale.den,
     den |-> MaxExtent(mesh.vertices) * mesh.scale.num * MillimetresPerMetre]

scale_mesh_for_printing(mesh, target) ==
    apply_scale(mesh, PrintScaleFactor(mesh, target))

(***************************************************************************)
(* mesh_generator.py: MeshGenerator.create_terrain_mesh, and the steps of  *)
(* mesh_builder.create_terrain_mesh it calls                               *)
(***************************************************************************)
\* mesh_generator.py lines 40-45.
SliceTerrain ==
    /\ mpc = "slice"
    /\ LET mesh_step == Max2(1, Max2(terrain.height, terrain.width) \div MeshMaxResolution)
       IN  grid' = [height |-> SlicedLen(terrain.height, mesh_step),
                    width  |-> SlicedLen(terrain.width, mesh_step),
                    e |-> Sliced(e_grid(terrain), terrain.height, terrain.width, mesh_step),
                    n |-> Sliced(n_grid(terrain), terrain.height, terrain.width, mesh_step),
                    u |-> Sliced(terrain.u_grid, terrain.height, terrain.width, mesh_step)]
    /\ mpc' = "vertices"
    /\ UNCHANGED <<xvars, zvars, inputs, rvars, exported>>
    /\ UNCHANGED <<vertices, faces, base_vertices, bottom_faces, side_faces, terrain_mesh>>

BuildVertices ==
    /\ mpc = "vertices"
    /\ vertices' = TopVertices(grid)
    /\ mpc' = "top_faces"
    /\ UNCHANGED <<xvars, zvars, inputs, rvars, exported>>
    /\ UNCHANGED <<grid, faces, base_vertices, bottom_faces, side_faces, terrain_mesh>>

BuildTopFaces ==
    /\ mpc = "top_faces"
    /\ faces' = TopFaces(grid.height, grid.width)
    /\ mpc' = "base"
    /\ UNCHANGED <<xvars, zvars, inputs, rvars, exported>>
    /\ UNCHANGED <<grid, vertices, base_vertices, bottom_faces, side_faces, terrain_mesh>>

\* Lines 82-93.  A grid with one row or one column has no faces: np.array([])
\* is one-dimensional and faces[:, ::-1] raises IndexError.
BuildBase ==
    /\ mpc = "base"
    /\ IF faces = <<>>
       THEN /\ mpc' = "failed"
            /\ error' = TooManyIndices
            /\ UNCHANGED <<base_vertices, bottom_faces>>
       ELSE /\ LET min_u  == GridMin(grid.u, grid.height, grid.width)
                   base_z == min_u - base_height
               IN  base_vertices' = BaseVertices(vertices, base_z)
            /\ bottom_faces' = BottomFaces(faces, Len(vertices))
            /\ mpc' = "top_edge"
            /\ UNCHANGED error
    /\ UNCHANGED <<pvars, hvars, cvars, zvars, inputs, rvars, exported>>
    /\ UNCHANGED <<grid, vertices, faces, side_faces, terrain_mesh>>

SideTopEdge ==
    /\ mpc = "top_edge"
    /\ side_faces' = side_faces \o TopEdgeFaces(grid.height, grid.width, Len(vertices))
    /\ mpc' = "right_edge"
    /\ UNCHANGED <<xvars, zvars, inputs, rvars, exported>>
    /\ UNCHANGED <<grid, vertices, faces, base_vertices, bottom_faces, terrain_mesh>>

SideRightEdge ==
    /\ mpc = "right_edge"
    /\ side_faces' = side_faces \o RightEdgeFaces(grid.height, grid.width, Len(vertices))
    /\ mpc' = "bottom_edge"
    /\ UNCHANGED <<xvars, zvars, inputs, rvars, exported>>
    /\ UNCHANGED <<grid, vertices, faces, base_vertices, bottom_faces, terrain_mesh>>

SideBottomEdge ==
    /\ mpc = "bottom_edge"
    /\ side_faces' = side_faces \o BottomEdgeFaces(grid.height, grid.width, Len(vertices))
    /\ mpc' = "left_edge"
    /\ UNCHANGED <<xvars, zvars, inputs, rvars, exported>>
    /\ UNCHANGED <<grid, vertices, faces, base_vertices, bottom_faces, terrain_mesh>>

SideLeftEdge ==
    /\ mpc = "left_edge"
    /\ side_faces' = side_faces \o LeftEdgeFaces(grid.height, grid.width, Len(vertices))
    /\ mpc' = "combine"
    /\ UNCHANGED <<xvars, zvars, inputs, rvars, exported>>
    /\ UNCHANGED <<grid, vertices, faces, base_vertices, bottom_faces, terrain_mesh>>

\* Lines 136-140.  Trimesh(process=True) merges coincident vertices; the
\* vertices of a regular grid over a base strictly below it are distinct.
CombineMesh ==
    /\ mpc = "combine"
    /\ terrain_mesh' = [vertices |-> vertices \o base_vertices,
                        faces    |-> faces \o bottom_faces \o side_faces,
                        scale    |-> UnitScale]
    /\ mpc' = "scale_terrain"
    /\ UNCHANGED <<xvars, zvars, inputs, rvars, exported>>
    /\ UNCHANGED <<grid, vertices, faces, base_vertices, bottom_faces, side_faces>>

\* mesh_generator.py line 99.
ScaleTerrain ==
    /\ mpc = "scale_terrain"
    /\ terrain_mesh' = scale_mesh_for_printing(terrain_mesh, target_size_mm)
    /\ mpc' = "export_terrain"
    /\ UNCHANGED <<xvars, zvars, inputs, rvars, exported>>
    /\ UNCHANGED <<grid, vertices, faces, base_vertices, bottom_faces, side_faces>>

\* mesh_generator.py lines 102-103.
ExportTerrain ==
    /\ mpc = "export_terrain"
    /\ exported' = exported \cup {"terrain_model.stl"}
    /\ mpc' = "route_mesh"
    /\ UNCHANGED <<xvars, zvars, inputs, tvars, rvars>>


(***************************************************************************)
(* mesh_builder.py: create_route_ribbon_mesh                               *)
(***************************************************************************)
\* Lines 267-281: top, bottom, left and right of the segment between the
\* samples whose first vertices are prev_base and curr_base.
SegmentFaces(prev_base, curr_base) ==
    << <<prev_base, curr_base, prev_base + 1>>,
       <<prev_base + 1, curr_base, curr_base + 1>>,
       <<prev_base + 2, prev_base + 3, curr_base + 2>>,
       <<prev_base + 3, curr_base + 3, curr_base + 2>>,
       <<prev_base, prev_base + 2, curr_base>>,
       <<prev_base + 2, curr_base + 2, curr_base>>,
       <<prev_base + 1, curr_base + 1, prev_base + 3>>,
       <<prev_base + 3, curr_base + 1, curr_base + 3>> >>

\* Lines 285-286.
StartCapFaces == << <<0, 2, 1>>, <<1, 2, 3>> >>

\* EndCapFaces placed one sample early (last_base taken as (n_points - 2) * 4).
EndCapFacesOneEarly(last_base) ==
    << <<last_base - 4, last_base - 3, last_base - 2>>,
       <<last_base - 3, last_base - 1, last_base - 2>> >>

\* Lines 289-291.
EndCapFaces(last_base) ==
    << <<last_base, last_base + 1, last_base + 2>>,
       <<last_base + 1, last_base + 3, last_base + 2>> >>

\* Lines 220-228: the uniform-stride downsampling and the length check.
RibbonDownsample ==
    /\ mpc = "route_mesh"
    /\ LET step == Max2(1, route_len \div RibbonMaxSamples)
       IN  n_points' = SlicedLen(route_len, step)
    /\ ribbon_i' = 0
    /\ mpc' = IF n_points' < 2 THEN "failed" ELSE "ribbon_loop"
    /\ error' = IF n_points' < 2 THEN TooFewRoutePoints ELSE error
    /\ UNCHANGED <<pvars, hvars, cvars, zvars, inputs, tvars, exported>>
    /\ UNCHANGED <<ribbon_nverts, ribbon_faces, route_mesh>>

\* Lines 234-281: one iteration of `for i in range(n_points)`.
RibbonSample ==
    /\ mpc = "ribbon_loop"
    /\ ribbon_nverts' = ribbon_nverts + 4
    /\ ribbon_faces' = IF ribbon_i > 0
                       THEN ribbon_faces \o SegmentFaces((ribbon_i - 1) * 4, ribbon_i * 4)
                       ELSE ribbon_faces
    /\ IF ribbon_i + 1 < n_points
       THEN ribbon_i' = ribbon_i + 1 /\ mpc' = "ribbon_loop"
       ELSE UNCHANGED ribbon_i /\ mpc' = "ribbon_caps"
    /\ UNCHANGED <<xvars, zvars, inputs, tvars, exported>>
    /\ UNCHANGED <<n_points, route_mesh>>

\* Lines 283-298.
RibbonCaps ==
    /\ mpc = "ribbon_caps"
    /\ ribbon_faces' = ribbon_faces \o StartCapFaces \o EndCapFaces((n_points - 1) * 4)
    /\ route_mesh' = [nverts |-> ribbon_nverts,
                      faces  |-> ribbon_faces',
                      scale  |-> UnitScale]
    /\ mpc' = "scale_route"
    /\ UNCHANGED <<xvars, zvars, inputs, tvars, exported>>
    /\ UNCHANGED <<n_points, ribbon_i, ribbon_nverts>>

(***************************************************************************)
(* mesh_generator.py: MeshGenerator.export_meshes, route part              *)
(***************************************************************************)
\* Lines 119-127: the factor computed from the Terrain_ENU grids.
RouteScaleFactor(t, target) ==
    LET e == e_grid(t)
        n == n_grid(t)
        size_e == GridMax(e, t.height, t.width) - GridMin(e, t.height, t.width)
        size_n == GridMax(n, t.height, t.width) - GridMin(n, t.height, t.width)
        size_u == GridMax(t.u_grid, t.height, t.width) - GridMin(t.u_grid, t.height, t.width)
        terrain_max_m == Max2(size_e, Max2(size_n, size_u))
    IN  [num |-> target, den |-> terrain_max_m * MillimetresPerMetre]

\* Lines 118-129.
ScaleRoute ==
    /\ mpc = "scale_route"
    /\ route_mesh' = apply_scale(route_mesh, RouteScaleFactor(terrain, target_size_mm))
    /\ mpc' = "export_route"
    /\ UNCHANGED <<xvars, zvars, inputs, tvars, exported>>
    /\ UNCHANGED <<n_points, ribbon_i, ribbon_nverts, ribbon_faces>>

\* Lines 132-133.
ExportRoute ==
    /\ mpc = "export_route"
    /\ exported' = exported \cup {"route_model.stl"}
    /\ mpc' = "done"
    /\ UNCHANGED <<xvars, zvars, inputs, tvars, rvars>>

(***************************************************************************)
(* The export run                                                          *)
(***************************************************************************)
\* Grid spacings (metres between neighbouring terrain samples).
Spacings == {10, 30}
\* Elevation grids: flat at 0, or flat with one sample raised by 30 m.
UGrids(h, w) ==
    {[c \in Cells(h, w) |-> IF c = peak THEN 30 ELSE 0] :
        peak \in Cells(h, w) \cup {<<-1, -1>>}}
Terrains ==
    UNION {UNION {{[height |-> h, width |-> w, spacing |-> sp, u_grid |-> u] :
                      sp \in Spacings, u \in UGrids(h, w)} :
                  h \in 2..MaxGrid} : w \in 2..MaxGrid}
\* export_meshes(base_height=50.0), and a lower base.
BaseHeights == {10, 50}
\* --model-size: the default 100 mm and a smaller model.
TargetSizes == {50, 100}

\* The zoom variables while export_meshes runs.
ZoomIdle ==
    /\ bbox = [min_longitude |-> 0, min_latitude |-> 0,
               max_longitude |-> 0, max_latitude |-> 0]
    /\ model_res = 0
    /\ max_tiles = DefaultMaxTiles
    /\ zoom = FirstZoom
    /\ optimum_zoom = FallbackZoom
    /\ zoom_value = 0
    /\ tiles = NoTiles
    /\ zpc = "idle"

InitMesh ==
    /\ ZoomIdle
    /\ RouteIdle /\ HeightmapIdle /\ CarveIdle /\ error = NoError
    /\ terrain \in Terrains
    /\ route_len \in 1..MaxRouteLen
    /\ base_height \in BaseHeights
    /\ target_size_mm \in TargetSizes
    /\ grid = <<>>
    /\ vertices = <<>>
    /\ faces = <<>>
    /\ base_vertices = <<>>
    /\ bottom_faces = <<>>
    /\ side_faces = <<>>
    /\ terrain_mesh = <<>>
    /\ n_points = 0
    /\ ribbon_i = 0
    /\ ribbon_nverts = 0
    /\ ribbon_faces = <<>>
    /\ route_mesh = <<>>
    /\ exported = {}
    /\ mpc = "slice"

NextMesh ==
    \/ SliceTerrain \/ BuildVertices \/ BuildTopFaces \/ BuildBase
    \/ SideTopEdge \/ SideRightEdge \/ SideBottomEdge \/ SideLeftEdge
    \/ CombineMesh \/ ScaleTerrain \/ ExportTerrain
    \/ RibbonDownsample \/ RibbonSample \/ RibbonCaps
    \/ ScaleRoute \/ ExportRoute

SpecMesh == InitMesh /\ [][NextMesh]_vars


(***************************************************************************)
(* Properties of the meshes                                                *)
(***************************************************************************)
\* The directed edges of a face, in its winding order.
FaceEdges(f) == {<<f[1], f[2]>>, <<f[2], f[3]>>, <<f[3], f[1]>>}

\* The number of faces of fs that traverse the edge from a to b.
DirectedUse(fs, a, b) ==
    Cardinality({k \in DOMAIN fs : <<a, b>> \in FaceEdges(fs[k])})

\* Every undirected edge of fs is used by exactly two faces.
Watertight(fs) ==
    \A k \in DOMAIN fs : \A ed \in FaceEdges(fs[k]) :
        DirectedUse(fs, ed[1], ed[2]) + DirectedUse(fs, ed[2], ed[1]) = 2

\* Faces sharing an edge traverse it in opposite directions: no directed
\* edge occurs in two faces.
WindingConsistent(fs) ==
    \A k \in DOMAIN fs : \A ed \in FaceEdges(fs[k]) :
        DirectedUse(fs, ed[1], ed[2]) = 1

FacesWithin(fs, nv) ==
    \A k \in DOMAIN fs : \A a \in 1..3 : fs[k][a] \in 0..(nv - 1)

\* C4: the face list of the terrain mesh (top, bottom and four walls over
\* 2*H*W vertices, H, W >= 2, base strictly below the surface) uses every
\* undirected edge exactly twice.
TerrainMeshWatertight ==
    mpc = "scale_terrain" =>
        /\ Len(terrain_mesh.vertices) = 2 * grid.height * grid.width
        /\ FacesWithin(terrain_mesh.faces, Len(terrain_mesh.vertices))
        /\ Watertight(terrain_mesh.faces)

\* C4 witness: a built terrain mesh of a grid with interior vertices, with
\* all its top, bottom and wall faces.
TerrainMeshWitness ==
    /\ mpc = "scale_terrain"
    /\ grid.height > 2 /\ grid.width > 2
    /\ base_height > 0
    /\ Len(terrain_mesh.faces) =
          4 * (grid.height - 1) * (grid.width - 1)
            + 4 * ((grid.height - 1) + (grid.width - 1))

\* C5: in the face list of the terrain mesh any two faces sharing an edge
\* traverse it in opposite directions (every directed edge occurs in exactly
\* one face).
TerrainMeshWindingConsistent ==
    mpc = "scale_terrain" => WindingConsistent(terrain_mesh.faces)

\* C6: the face list of the ribbon mesh (8 faces per segment and two
\* 2-triangle caps over 4*N vertices, N >= 2) uses every undirected edge
\* exactly twice.
RibbonMeshWatertight ==
    mpc = "scale_route" =>
        /\ route_mesh.nverts = 4 * n_points
        /\ Len(route_mesh.faces) = 8 * (n_points - 1) + 4
        /\ FacesWithin(route_mesh.faces, route_mesh.nverts)
        /\ Watertight(route_mesh.faces)

\* C6 witness: a built ribbon with an interior sample, so that two segments
\* meet, and both caps.
RibbonMeshWitness ==
    /\ mpc = "scale_route"
    /\ n_points >= 3
    /\ Len(route_mesh.faces) = 8 * (n_points - 1) + 4

\* C7: in the face list of the ribbon mesh any two faces sharing an edge
\* traverse it in opposite directions, between the surfaces of a segment and
\* between each cap and the surfaces it seals.
RibbonMeshWindingConsistent ==
    mpc = "scale_route" => WindingConsistent(route_mesh.faces)

\* Equality of two fractions.
SameFactor(f, g) == f.num * g.den = g.num * f.den

\* C8: the scale factor applied to the route mesh equals the one applied to
\* the terrain mesh.
SharedScaleFactor ==
    mpc \in {"export_route", "done"} => SameFactor(route_mesh.scale, terrain_mesh.scale)

\* C9: after scale_mesh_for_printing the longest bounding-box dimension of
\* the terrain mesh equals target_size_mm.
ScaledToTargetSize ==
    mpc = "export_terrain" =>
        MaxExtent(terrain_mesh.vertices) * terrain_mesh.scale.num
            = target_size_mm * terrain_mesh.scale.den

\* C10: a run that fails has written no file, and no finished run has
\* written terrain_model.stl without route_model.stl.
NoPartialOutput ==
    /\ mpc = "failed" => exported = {}
    /\ mpc \in {"failed", "done"} =>
          ("terrain_model.stl" \in exported => "route_model.stl" \in exported)


(***************************************************************************)
(* tile_client.py: MapboxTileClient.fetch_tile and decode_terrain_rgb      *)
(*                                                                         *)
(* A response body is a sequence: <<>> is the empty body and <<b>> is the  *)
(* Terrain-RGB image whose pixel (pr, pc) has the colour (b, pr, pc), so   *)
(* that every pixel of every image decodes to a different elevation.       *)
(* Elevations of the height map are integers in tenths of a metre.         *)
(***************************************************************************)
MaxTileList == 2
MaxRequests == 3

\* The tiles a list is drawn from: two zooms, two columns, two rows.
TileUniverse == [zoom : {1, 2}, x : {0, 1}, y : {0, 1}]

\* The image the tile server holds for a tile.
ServerImage(t) == <<1 + t.x + 2 * t.y + 4 * (t.zoom - 1)>>

\* decode_terrain_rgb at one pixel: -10000 + (R*256*256 + G*256 + B) * 0.1
decode_terrain_rgb(png_bytes, pr, pc) ==
    -100000 + (png_bytes[1] * 256 * 256 + pr * 256 + pc)

\* TileCache.get: the cached bytes, <<>> standing for None too (both falsy).
CacheGet(c, t) == IF t \in DOMAIN c THEN c[t] ELSE <<>>

EmptyInput == [type |-> "ValueError", msg |-> "No tiles specified"]
MixedZoom == [type |-> "ValueError", msg |-> "All tiles must be at same zoom level"]
TileFetchFailed == [type |-> "RuntimeError", msg |-> "Tile fetch failed"]
UnidentifiedImage == [type |-> "UnidentifiedImageError", msg |-> "cannot identify image file"]

\* The tile the fetch loop is at.
CurrentTile == tile_coords[fetch_k]

\* heightmap.py: tiles[(tile.x, tile.y)] = tile_data
StoreTile(td, t, data) == (<<t.x, t.y>> :> data) @@ td

\* heightmap.py without the zoom check: only the empty list is refused.
ValidateTilesEmptyOnly ==
    /\ hpc = "validate"
    /\ IF tile_coords = <<>>
       THEN hpc' = "failed" /\ error' = EmptyInput /\ UNCHANGED fetch_k
       ELSE hpc' = "fetch" /\ fetch_k' = 1 /\ UNCHANGED error
    /\ UNCHANGED <<tile_coords, cache, fetch_calls, http_requests, cache_writes,
                   tiles_data, heightmap>>
    /\ UNCHANGED <<fetched, zvars, mvars, pvars, cvars>>

\* heightmap.py: the two checks before the fetch loop.
ValidateTiles ==
    /\ hpc = "validate"
    /\ IF tile_coords = <<>>
       THEN hpc' = "failed" /\ error' = EmptyInput /\ UNCHANGED fetch_k
       ELSE IF Cardinality({tile_coords[i].zoom : i \in DOMAIN tile_coords}) > 1
       THEN hpc' = "failed" /\ error' = MixedZoom /\ UNCHANGED fetch_k
       ELSE hpc' = "fetch" /\ fetch_k' = 1 /\ UNCHANGED error
    /\ UNCHANGED <<tile_coords, cache, fetch_calls, http_requests, cache_writes,
                   tiles_data, heightmap>>
    /\ UNCHANGED <<fetched, zvars, mvars, pvars, cvars>>

\* fetch_tile answered from the cache, and the tile decoded and stored.
FetchFromCache ==
    /\ hpc = "fetch"
    /\ fetch_k <= Len(tile_coords)
    /\ CacheGet(cache, CurrentTile) # <<>>
    /\ fetch_calls' = fetch_calls + 1
    /\ tiles_data' = StoreTile(tiles_data, CurrentTile, CacheGet(cache, CurrentTile))
    /\ fetch_k' = fetch_k + 1
    /\ UNCHANGED <<tile_coords, cache, http_requests, cache_writes, heightmap, hpc>>
    /\ UNCHANGED <<fetched, zvars, mvars, pvars, cvars, error>>

\* fetch_tile finds no (or empty) cached bytes and goes on to the request.
FetchMiss ==
    /\ hpc = "fetch"
    /\ fetch_k <= Len(tile_coords)
    /\ CacheGet(cache, CurrentTile) = <<>>
    /\ fetch_calls' = fetch_calls + 1
    /\ hpc' = "http"
    /\ UNCHANGED <<tile_coords, cache, http_requests, cache_writes, fetch_k,
                   tiles_data, heightmap>>
    /\ UNCHANGED <<fetched, zvars, mvars, pvars, cvars, error>>

\* Status 200: the body is cached and returned, then decoded and stored;
\* decoding an empty body raises.
HttpOk ==
    /\ hpc = "http"
    /\ \E body \in {ServerImage(CurrentTile), <<>>} :
          /\ cache' = (CurrentTile :> body) @@ cache
          /\ IF body = <<>>
             THEN /\ hpc' = "failed"
                  /\ error' = UnidentifiedImage
                  /\ UNCHANGED <<tiles_data, fetch_k>>
             ELSE /\ tiles_data' = StoreTile(tiles_data, CurrentTile, body)
                  /\ fetch_k' = fetch_k + 1
                  /\ hpc' = "fetch"
                  /\ UNCHANGED error
    /\ http_requests' = http_requests + 1
    /\ cache_writes' = cache_writes + 1
    /\ UNCHANGED <<tile_coords, fetch_calls, heightmap>>
    /\ UNCHANGED <<fetched, zvars, mvars, pvars, cvars>>

\* Status 429: sleep, then fetch_tile calls itself; the cache still misses.
HttpRateLimited ==
    /\ hpc = "http"
    /\ http_requests < MaxRequests
    /\ http_requests' = http_requests + 1
    /\ UNCHANGED <<tile_coords, cache, fetch_calls, cache_writes, fetch_k,
                   tiles_data, heightmap, hpc>>
    /\ UNCHANGED <<fetched, zvars, mvars, pvars, cvars, error>>

\* Any other status: RuntimeError.
HttpError ==
    /\ hpc = "http"
    /\ http_requests' = http_requests + 1
    /\ hpc' = "failed"
    /\ error' = TileFetchFailed
    /\ UNCHANGED <<tile_coords, cache, fetch_calls, cache_writes, fetch_k,
                   tiles_data, heightmap>>
    /\ UNCHANGED <<fetched, zvars, mvars, pvars, cvars>>


SetMin(S) == CHOOSE m \in S : \A e \in S : m <= e

\* The stitching loop with the block row taken from x and the column from y.
PatchesTransposed(td, min_x, min_y) ==
    LET Offset(k) == <<(k[1] - min_x) * TilePixels, (k[2] - min_y) * TilePixels>>
    IN  [o \in {Offset(k) : k \in DOMAIN td} |->
            td[CHOOSE k \in DOMAIN td : Offset(k) = o]]

\* heightmap.py: the stitching loop.  Each tile is assigned to the slice
\* [row*256:(row+1)*256, col*256:(col+1)*256] with row = y - min_y and
\* col = x - min_x; the result maps the first pixel <<row*256, col*256>> of
\* every assigned slice to the tile data assigned there.
Patches(td, min_x, min_y) ==
    LET Offset(k) == <<(k[2] - min_y) * TilePixels, (k[1] - min_x) * TilePixels>>
    IN  [o \in {Offset(k) : k \in DOMAIN td} |->
            td[CHOOSE k \in DOMAIN td : Offset(k) = o]]

\* The value of heightmap[r, c]: np.zeros wherever no slice was assigned.
Pixel(hm, r, c) ==
    LET hit == {o \in DOMAIN hm.patches :
                   /\ o[1] <= r /\ r < o[1] + TilePixels
                   /\ o[2] <= c /\ c < o[2] + TilePixels}
    IN  IF hit = {} THEN 0
        ELSE LET o == CHOOSE p \in hit : TRUE
             IN  decode_terrain_rgb(hm.patches[o], r - o[1], c - o[2])

\* heightmap.py: the grid bounds, the zero grid and the stitching loop.
StitchTiles ==
    /\ hpc = "fetch"
    /\ fetch_k > Len(tile_coords)
    /\ LET xs == {k[1] : k \in DOMAIN tiles_data}
           ys == {k[2] : k \in DOMAIN tiles_data}
           min_x == SetMin(xs)
           max_x == SetMax(xs)
           min_y == SetMin(ys)
           max_y == SetMax(ys)
       IN  heightmap' = [height |-> (max_y - min_y + 1) * TilePixels,
                         width |-> (max_x - min_x + 1) * TilePixels,
                         patches |-> Patches(tiles_data, min_x, min_y)]
    /\ hpc' = "done"
    /\ UNCHANGED <<tile_coords, cache, fetch_calls, http_requests, cache_writes,
                   fetch_k, tiles_data>>
    /\ UNCHANGED <<fetched, zvars, mvars, pvars, cvars, error>>

TileLists == UNION {[1..n -> TileUniverse] : n \in 0..MaxTileList}

\* The cache directory at the start: empty, or left by an earlier run that
\* stored the image of tile 1/0/0 and an empty body for tile 1/1/0.
InitialCaches ==
    {<<>>,
     ([zoom |-> 1, x |-> 0, y |-> 0] :> ServerImage([zoom |-> 1, x |-> 0, y |-> 0]))
        @@ ([zoom |-> 1, x |-> 1, y |-> 0] :> <<>>)}

InitHeightmap ==
    /\ ZoomIdle /\ MeshIdle /\ RouteIdle /\ CarveIdle /\ error = NoError
    /\ tile_coords \in TileLists
    /\ cache \in InitialCaches
    /\ fetch_calls = 0
    /\ http_requests = 0
    /\ cache_writes = 0
    /\ fetch_k = 0
    /\ tiles_data = <<>>
    /\ heightmap = NoHeightmap
    /\ hpc = "validate"
    /\ fetched = <<>>

NextHeightmap ==
    \/ ValidateTiles \/ FetchFromCache \/ FetchMiss
    \/ HttpOk \/ HttpRateLimited \/ HttpError
    \/ StitchTiles

SpecHeightmap == InitHeightmap /\ [][NextHeightmap]_vars

(***************************************************************************)
(* Properties of the height map                                            *)
(***************************************************************************)
\* The sub-pixel positions the layout is compared at, in every block.
ProbePixels == {0, 1, 100, 255}
ProbeIndices(len) ==
    {b * TilePixels + o : b \in 0..((len \div TilePixels) - 1), o \in ProbePixels}

InputXs == {tile_coords[i].x : i \in DOMAIN tile_coords}
InputYs == {tile_coords[i].y : i \in DOMAIN tile_coords}
InputHas(x, y) == \E i \in DOMAIN tile_coords : tile_coords[i].x = x /\ tile_coords[i].y = y

\* C11: the grid returned for a non-empty tile list of one zoom has
\* (maxY-minY+1)*256 rows and (maxX-minX+1)*256 columns, and its pixel (r, c)
\* is the decoded elevation of tile (minX + c div 256, minY + r div 256) at
\* sub-pixel (r mod 256, c mod 256) when that tile is in the list, and 0
\* when it is not.
HeightmapLayout ==
    hpc = "done" =>
        LET minX == SetMin(InputXs)
            minY == SetMin(InputYs)
        IN  /\ heightmap.height = (SetMax(InputYs) - minY + 1) * 256
            /\ heightmap.width = (SetMax(InputXs) - minX + 1) * 256
            /\ \A r \in ProbeIndices(heightmap.height), c \in ProbeIndices(heightmap.width) :
                  LET x == minX + (c \div 256)
                      y == minY + (r \div 256)
                  IN  Pixel(heightmap, r, c) =
                        IF InputHas(x, y)
                        THEN decode_terrain_rgb(tiles_data[<<x, y>>], r % 256, c % 256)
                        ELSE 0

\* Two tiles on a diagonal stitched into a 512 x 512 grid with two gaps.
HeightmapLayoutWitness ==
    /\ hpc = "done"
    /\ heightmap.height = 512 /\ heightmap.width = 512
    /\ Cardinality(DOMAIN heightmap.patches) = 2

OneZoom == Cardinality({tile_coords[i].zoom : i \in DOMAIN tile_coords}) = 1

\* C12: a call with an empty tile list fails with the empty-input error and
\* a call with tiles of different zooms fails with the mixed-zoom error; in
\* both cases no fetch_tile call, no request and no cache write has been
\* made and no height map is returned.
TileListValidated ==
    ~OneZoom =>
        /\ hpc \in {"validate", "failed"}
        /\ fetch_calls = 0 /\ http_requests = 0 /\ cache_writes = 0
        /\ cache \in InitialCaches
        /\ heightmap = NoHeightmap
        /\ hpc = "failed" =>
              error = IF tile_coords = <<>> THEN EmptyInput ELSE MixedZoom

\* A list of two tiles of different zooms was refused.
TileListValidatedWitness ==
    /\ hpc = "failed" /\ error = MixedZoom
    /\ Len(tile_coords) = 2 /\ fetch_calls = 0


(***************************************************************************)
(* mesh_builder.py: create_terrain_mesh called with a route                *)
(*                                                                         *)
(* In these runs all lengths are integers in centimetres.  The argument    *)
(* terrain_u is the caller's array object itself (mesh_generator.py passes *)
(* a slice, which numpy makes a view of Terrain_ENU.u_grid), so grid.u is  *)
(* at once the array the function works on and the array the caller        *)
(* holds; u_at_call keeps the values it held when the call was made.       *)
(***************************************************************************)
MaxCarveRoute == 2

\* The largest r with r * r <= n.
ISqrt(n) == CHOOSE r \in 0..n : r * r <= n /\ (r + 1) * (r + 1) > n

\* Line 47-48, squared: the least squared distance of grid point c to the
\* route samples.
MinDist2(g, rt, c) ==
    SetMin({(rt[k].e - g.e[c]) * (rt[k].e - g.e[c])
              + (rt[k].n - g.n[c]) * (rt[k].n - g.n[c]) : k \in DOMAIN rt})

\* Line 51: min_dist < route_width / 2, compared on the squares.
WithinCorridor(d2, w) == w > 0 /\ 4 * d2 < w * w

\* Lines 51-55 with route_width as the reach on either side of the route:
\* min_dist < route_width and factor = 1 - min_dist / route_width.
CarvedValueWholeWidth(u, d2, w, depth) ==
    IF w > 0 /\ d2 < w * w
    THEN u - (depth * (w - ISqrt(d2))) \div w
    ELSE u

\* Lines 53-55: the value of terrain_u[i, j] after the carving of one grid
\* point, factor = 1 - min_dist / (route_width / 2).  The samples of the
\* modelled routes lie on grid rows and the corridors are no wider than two
\* grid spacings, so every distance inside a corridor runs along a row and
\* the square root and the division are exact.
CarvedValue(u, d2, w, depth) ==
    IF WithinCorridor(d2, w)
    THEN u - (depth * (w - 2 * ISqrt(d2))) \div w
    ELSE u

\* The grid point the carving loop is at, in row-major order.
CarveCellAt(g, k) == <<k \div g.width, k % g.width>>

\* Lines 42-55: one iteration of the double loop, in place on terrain_u.
CarveCell ==
    /\ mpc = "carve"
    /\ carve_k < grid.height * grid.width
    /\ LET c == CarveCellAt(grid, carve_k)
       IN  grid' = [grid EXCEPT !.u[c] =
                       CarvedValue(@, MinDist2(grid, route_en, c), route_width, route_depth)]
    /\ carve_k' = carve_k + 1
    /\ UNCHANGED <<route_en, route_width, route_depth, u_at_call>>
    /\ UNCHANGED <<vertices, faces, base_vertices, bottom_faces, side_faces, terrain_mesh>>
    /\ UNCHANGED <<pvars, hvars, error, zvars, inputs, rvars, exported, mpc>>

\* The loops are over: on to the vertices of line 58.
CarveDone ==
    /\ mpc = "carve"
    /\ carve_k >= grid.height * grid.width
    /\ mpc' = "vertices"
    /\ UNCHANGED <<xvars, zvars, inputs, tvars, rvars, exported>>

\* Grids of 1 m spacing, flat at 100 m, one row or column included.
BuilderGrids ==
    {[height |-> h, width |-> w,
      e |-> e_grid([height |-> h, width |-> w, spacing |-> 100]),
      n |-> n_grid([height |-> h, width |-> w, spacing |-> 100]),
      u |-> [c \in Cells(h, w) |-> 10000]] : h \in 1..MaxGrid, w \in 1..MaxGrid}

\* Route samples on the first two grid rows, at and halfway between grid
\* points.
CarveSamples == [e : {0, 50, 100}, n : {0, -100}]
CarveRoutes == UNION {[1..k -> CarveSamples] : k \in 1..MaxCarveRoute}

\* route_width 2 m (the default) and 1 m; route_depth 1 m (the default)
\* and a ridge of 1 m.
RouteWidths == {100, 200}
RouteDepths == {100, -100}

InitBuilder ==
    /\ ZoomIdle /\ RouteIdle /\ HeightmapIdle /\ error = NoError
    /\ terrain = [height |-> 0, width |-> 0, spacing |-> 0, u_grid |-> <<>>]
    /\ route_len = 0
    /\ base_height = 1000
    /\ target_size_mm = 0
    /\ grid \in BuilderGrids
    /\ u_at_call = grid.u
    /\ route_en \in CarveRoutes
    /\ route_width \in RouteWidths
    /\ route_depth \in RouteDepths
    /\ carve_k = 0
    /\ vertices = <<>>
    /\ faces = <<>>
    /\ base_vertices = <<>>
    /\ bottom_faces = <<>>
    /\ side_faces = <<>>
    /\ terrain_mesh = <<>>
    /\ n_points = 0
    /\ ribbon_i = 0
    /\ ribbon_nverts = 0
    /\ ribbon_faces = <<>>
    /\ route_mesh = <<>>
    /\ exported = {}
    /\ mpc = "carve"

\* create_terrain_mesh from its entry to its return (mpc = "scale_terrain",
\* the mesh in terrain_mesh) or to the exception it raises.
NextBuilder ==
    \/ CarveCell \/ CarveDone
    \/ BuildVertices \/ BuildTopFaces \/ BuildBase
    \/ SideTopEdge \/ SideRightEdge \/ SideBottomEdge \/ SideLeftEdge
    \/ CombineMesh

SpecBuilder == InitBuilder /\ [][NextBuilder]_vars


(***************************************************************************)
(* Properties of create_terrain_mesh called with a route                   *)
(***************************************************************************)
\* C13: when create_terrain_mesh, called with a route, has returned, the
\* caller's terrain_u holds exactly the values it held before the call.
CallerArrayUntouched ==
    (mpc = "scale_terrain" /\ route_en # <<>>) => grid.u = u_at_call

\* The scenario of C14 once the carving loops are over: corridor width 2 m,
\* depth 1 m, a grid flat at 100 m.
CarvingScenarioDone ==
    /\ route_en # <<>>
    /\ mpc # "carve"
    /\ route_width = 200 /\ route_depth = 100
    /\ \A c \in DOMAIN u_at_call : u_at_call[c] = 10000

\* C14 as stated: a grid point at a route sample ends at 99 m, one whose
\* nearest sample is 2 m away stays at 100 m, and one whose nearest sample
\* is 1 m away ends strictly between 99 m and 100 m.
CarvingScenario ==
    CarvingScenarioDone =>
        \A c \in DOMAIN grid.u :
            LET d2 == MinDist2(grid, route_en, c)
            IN  /\ d2 = 0 => grid.u[c] = 9900
                /\ d2 = 200 * 200 => grid.u[c] = 10000
                /\ d2 = 100 * 100 => (9900 < grid.u[c] /\ grid.u[c] < 10000)

\* C14, amended: a grid point at a route sample ends at 99 m, one whose
\* nearest sample is 2 m away stays at 100 m, and one whose nearest sample
\* is 1 m away, on the edge of the corridor, stays at 100 m as well; the
\* points ending strictly between 99 m and 100 m are those whose nearest
\* sample is nearer than 1 m and not at the point.
CarvingScenarioAmended ==
    CarvingScenarioDone =>
        \A c \in DOMAIN grid.u :
            LET d2 == MinDist2(grid, route_en, c)
            IN  /\ d2 = 0 => grid.u[c] = 9900
                /\ d2 = 200 * 200 => grid.u[c] = 10000
                /\ d2 = 100 * 100 => grid.u[c] = 10000
                /\ (0 < d2 /\ d2 < 100 * 100) =>
                      (9900 < grid.u[c] /\ grid.u[c] < 10000)

\* A carved grid with points at a sample, 1 m and 2 m from the route.
CarvingScenarioWitness ==
    /\ CarvingScenarioDone
    /\ \E c \in DOMAIN grid.u : MinDist2(grid, route_en, c) = 0 /\ grid.u[c] = 9900
    /\ \E c \in DOMAIN grid.u : MinDist2(grid, route_en, c) = 100 * 100
    /\ \E c \in DOMAIN grid.u : MinDist2(grid, route_en, c) = 200 * 200

\* C19: create_terrain_mesh on a grid with fewer than two rows or fewer
\* than two columns returns no mesh and fails with an error raised for the
\* grid, a ValueError as the checks of this code raise.
DegenerateGridRejected ==
    (mpc # "idle" /\ route_en # <<>> /\ (grid.height < 2 \/ grid.width < 2)) =>
        /\ terrain_mesh = <<>>
        /\ mpc # "scale_terrain"
        /\ mpc = "failed" => error.type = "ValueError"


(***************************************************************************)
(* mesh_builder.py: the downsampling of create_route_ribbon_mesh over long *)
(* routes, and scale_mesh_for_printing over arbitrary meshes               *)
(***************************************************************************)
MaxLongRoute == 1600

\* The mesh variables at the entry of a function of mesh_builder.py called
\* on its own, all but the ones the specification chooses.
BuilderIdle ==
    /\ terrain = [height |-> 0, width |-> 0, spacing |-> 0, u_grid |-> <<>>]
    /\ base_height = 0
    /\ grid = <<>>
    /\ vertices = <<>>
    /\ faces = <<>>
    /\ base_vertices = <<>>
    /\ bottom_faces = <<>>
    /\ side_faces = <<>>
    /\ n_points = 0
    /\ ribbon_i = 0
    /\ ribbon_nverts = 0
    /\ ribbon_faces = <<>>
    /\ route_mesh = <<>>
    /\ exported = {}

\* create_route_ribbon_mesh entered with a route of any length.
InitDownsample ==
    /\ ZoomIdle /\ RouteIdle /\ HeightmapIdle /\ CarveIdle /\ error = NoError
    /\ BuilderIdle
    /\ route_len \in 1..MaxLongRoute
    /\ target_size_mm = 0
    /\ terrain_mesh = <<>>
    /\ mpc = "route_mesh"

NextDownsample == RibbonDownsample

SpecDownsample == InitDownsample /\ [][NextDownsample]_vars

\* C15: for every route length, the number of samples kept after the
\* downsampling with stride max(1, L div 500) is at most 500.
DownsampledAtMost500 ==
    mpc \in {"ribbon_loop", "failed"} => n_points <= 500

\* Meshes of one triangle with corners on the unit cube, in metres; the
\* three corners may coincide.
TriangleMeshes ==
    {[vertices |-> <<a, b, c>>, faces |-> << <<0, 1, 2>> >>, scale |-> UnitScale] :
        a \in {0, 1} \X {0, 1} \X {0, 1},
        b \in {0, 1} \X {0, 1} \X {0, 1},
        c \in {0, 1} \X {0, 1} \X {0, 1}}

\* scale_mesh_for_printing entered with a mesh and a target size.
InitScale ==
    /\ ZoomIdle /\ RouteIdle /\ HeightmapIdle /\ CarveIdle /\ error = NoError
    /\ BuilderIdle
    /\ route_len = 0
    /\ target_size_mm \in TargetSizes
    /\ terrain_mesh \in TriangleMeshes
    /\ mpc = "scale_terrain"

NextScale == ScaleTerrain

SpecScale == InitScale /\ [][NextScale]_vars

\* C18: scale_mesh_for_printing on a mesh whose largest bounding-box
\* dimension is zero fails and leaves the mesh unscaled: no factor with a
\* zero divisor is ever applied.
DegenerateBoundsRejected ==
    (mpc \in {"export_terrain", "failed"} /\ terrain_mesh # <<>>
        /\ MaxExtent(terrain_mesh.vertices) = 0) =>
        /\ mpc = "failed"
        /\ terrain_mesh.scale = UnitScale


(***************************************************************************)
(* tiles_to_cover on the bounding box of one tile                          *)
(***************************************************************************)
MaxCornerZoom == 3

\* terrain_data.py line 104, arctan(sinh(pi * (1 - 2 * y / n))): the latitude
\* of the tile edge that lies k sixteenths of the way from the north edge of
\* the map to the south edge.
EdgeLatitude ==
    (0 :> 8505) @@ (1 :> 8268) @@ (2 :> 7917) @@ (3 :> 7402) @@
    (4 :> 6651) @@ (5 :> 5578) @@ (6 :> 4098) @@ (7 :> 2194) @@
    (8 :> 0) @@ (9 :> -2194) @@ (10 :> -4098) @@ (11 :> -5578) @@
    (12 :> -6651) @@ (13 :> -7402) @@ (14 :> -7917) @@ (15 :> -8268) @@
    (16 :> -8505)

\* The longitude of the west edge of tile column x and the latitude of the
\* north edge of tile row y at zoom z (z <= 4).
TileEdgeLongitude(x, z) == (x * 36000) \div Pow2(z) - 18000
TileEdgeLatitude(y, z) == EdgeLatitude[y * (16 \div Pow2(z))]

\* The bounding box whose corners are the corners of tile (z, x, y); its
\* south edge is the north edge of row y + 1.
TileBBox(z, x, y) ==
    [min_longitude |-> TileEdgeLongitude(x, z),
     min_latitude  |-> TileEdgeLatitude(y + 1, z),
     max_longitude |-> TileEdgeLongitude(x + 1, z),
     max_latitude  |-> TileEdgeLatitude(y, z)]

\* main.py line 30 reached with --manual-zoom z and the box of one tile.
InitTile ==
    /\ MeshIdle /\ HeightmapIdle /\ CarveIdle /\ error = NoError
    /\ route_ll = <<>>
    /\ \E z \in 0..MaxCornerZoom :
          \E x \in 0..(Pow2(z) - 1), y \in 0..(Pow2(z) - 1) :
              /\ bbox = TileBBox(z, x, y)
              /\ manual_zoom = [given |-> TRUE, value |-> z]
              /\ zoom_value = z
    /\ model_res = 0
    /\ max_tiles = DefaultMaxTiles
    /\ zoom = FirstZoom
    /\ optimum_zoom = FallbackZoom
    /\ tiles = NoTiles
    /\ zpc = "cover"

NextTile == CoverTiles

SpecTile == InitTile /\ [][NextTile]_vars

\* C16: for every zoom and tile (x, y), tiles_to_cover on the bounding box
\* whose corners are exactly that tile's corners returns exactly one tile,
\* the tile (zoom, x, y).
SingleTileCover ==
    zpc = "done" =>
        \A z \in 0..MaxCornerZoom :
            \A x \in 0..(Pow2(z) - 1), y \in 0..(Pow2(z) - 1) :
                (zoom_value = z /\ bbox = TileBBox(z, x, y)) =>
                    (NumTiles(tiles) = 1 /\ TileIn(tiles, z, x, y))


(***************************************************************************)
(* main.py lines 23-30: from the route to the tiles covering it            *)
(***************************************************************************)
MaxRoutePoints == 2

\* The points a route is drawn from.
RouteLongitudes == {-100, 3, 40, 9000}
RouteLatitudes == {-6000, 0, 15, 4500}
RoutePoints == [lon : RouteLongitudes, lat : RouteLatitudes]
Routes == UNION {[1..k -> RoutePoints] : k \in 1..MaxRoutePoints}

\* --manual-zoom: absent, or any integer; the model draws from the zooms of
\* the scan and one beyond either end.  (At zoom 16 the tile rows are those
\* of zoom 15 doubled, MercatorFraction holding 15 binary digits.)
ManualZooms == (FirstZoom - 1)..(LastZoom + 1)
ManualZoomOptions ==
    {NoManualZoom} \cup {[given |-> TRUE, value |-> z] : z \in ManualZooms}

\* Route_LL.bounds: the extremes of the latitudes and of the longitudes.
RouteBounds(rt) ==
    [min_latitude  |-> SetMin({rt[i].lat : i \in DOMAIN rt}),
     min_longitude |-> SetMin({rt[i].lon : i \in DOMAIN rt}),
     max_latitude  |-> SetMax({rt[i].lat : i \in DOMAIN rt}),
     max_longitude |-> SetMax({rt[i].lon : i \in DOMAIN rt})]

\* BBox_LL.new
BBoxNew(bounds) ==
    [min_longitude |-> bounds.min_longitude,
     max_longitude |-> bounds.max_longitude,
     min_latitude  |-> bounds.min_latitude,
     max_latitude  |-> bounds.max_latitude]

\* main.py line 24: bbox_ll = BBox_LL.new(route_ll.bounds)
LoadRouteBounds ==
    /\ zpc = "bounds"
    /\ bbox' = BBoxNew(RouteBounds(route_ll))
    /\ zpc' = "new"
    /\ UNCHANGED <<model_res, max_tiles, zoom, optimum_zoom, zoom_value, tiles>>
    /\ UNCHANGED <<xvars, mvars>>

\* ZoomLevel.new: the manual zoom is returned as it is, otherwise
\* _compute_auto_zoom is entered.
ZoomNew ==
    /\ zpc = "new"
    /\ IF manual_zoom.given
       THEN zoom_value' = manual_zoom.value /\ zpc' = "cover"
       ELSE UNCHANGED zoom_value /\ zpc' = "scan"
    /\ UNCHANGED <<bbox, model_res, max_tiles, zoom, optimum_zoom, tiles>>
    /\ UNCHANGED <<xvars, mvars>>

InitRoute ==
    /\ MeshIdle /\ HeightmapIdle /\ CarveIdle /\ error = NoError
    /\ route_ll \in Routes
    /\ manual_zoom \in ManualZoomOptions
    /\ model_res \in IF manual_zoom.given THEN {0} ELSE {5, 2500}
    /\ bbox = [min_longitude |-> 0, min_latitude |-> 0,
               max_longitude |-> 0, max_latitude |-> 0]
    /\ max_tiles = DefaultMaxTiles
    /\ zoom = FirstZoom
    /\ optimum_zoom = FallbackZoom
    /\ zoom_value = 0
    /\ tiles = NoTiles
    /\ zpc = "bounds"

NextRoute ==
    \/ LoadRouteBounds \/ ZoomNew
    \/ ScanZoom \/ ReturnZoom \/ CoverTiles

SpecRoute == InitRoute /\ [][NextRoute]_vars

\* C17: no RasterTile with a zoom outside 0..15 is ever produced, the
\* manual zoom override included: lonlat_to_tile fails for such a zoom, so
\* tiles_to_cover yields no tiles for it.
TileZoomInRange ==
    zpc = "done" => tiles.zoom \in 0..15

RecordReturn(h, t, data, from_http) ==
    IF t \in DOMAIN h THEN [h EXCEPT ![t] = Append(@, data)]
    ELSE IF from_http THEN (t :> <<data>>) @@ h
    ELSE h

\* Lines 75-78: `if cached:` is true for cached bytes that are not empty.
ClientCacheHit(c, t) == CacheGet(c, t) # <<>>

\* fetch_tile returns the cached bytes.
ClientFetchCached ==
    /\ hpc = "call"
    /\ fetch_k <= Len(tile_coords)
    /\ ClientCacheHit(cache, CurrentTile)
    /\ fetch_calls' = fetch_calls + 1
    /\ fetched' = RecordReturn(fetched, CurrentTile, cache[CurrentTile], FALSE)
    /\ fetch_k' = fetch_k + 1
    /\ UNCHANGED <<tile_coords, cache, http_requests, cache_writes, tiles_data,
                   heightmap, hpc>>
    /\ UNCHANGED <<zvars, mvars, pvars, cvars, error>>

\* fetch_tile goes on to the request of line 83.
ClientFetchMiss ==
    /\ hpc = "call"
    /\ fetch_k <= Len(tile_coords)
    /\ ~ClientCacheHit(cache, CurrentTile)
    /\ fetch_calls' = fetch_calls + 1
    /\ hpc' = "request"
    /\ UNCHANGED <<tile_coords, cache, http_requests, cache_writes, fetch_k,
                   tiles_data, heightmap, fetched>>
    /\ UNCHANGED <<zvars, mvars, pvars, cvars, error>>

\* Status 200: the body, the tile's image or empty, is cached and returned.
ClientHttpOk ==
    /\ hpc = "request"
    /\ \E body \in {ServerImage(CurrentTile), <<>>} :
          /\ cache' = (CurrentTile :> body) @@ cache
          /\ fetched' = RecordReturn(fetched, CurrentTile, body, TRUE)
    /\ http_requests' = http_requests + 1
    /\ cache_writes' = cache_writes + 1
    /\ fetch_k' = fetch_k + 1
    /\ hpc' = "call"
    /\ UNCHANGED <<tile_coords, fetch_calls, tiles_data, heightmap>>
    /\ UNCHANGED <<zvars, mvars, pvars, cvars, error>>

\* Status 429: sleep, then fetch_tile calls itself and misses again.
ClientHttpRateLimited ==
    /\ hpc = "request"
    /\ http_requests < MaxRequests
    /\ http_requests' = http_requests + 1
    /\ UNCHANGED <<tile_coords, cache, fetch_calls, cache_writes, fetch_k,
                   tiles_data, heightmap, hpc, fetched>>
    /\ UNCHANGED <<zvars, mvars, pvars, cvars, error>>

\* Any other status: RuntimeError reaches the caller.
ClientHttpError ==
    /\ hpc = "request"
    /\ http_requests' = http_requests + 1
    /\ hpc' = "failed"
    /\ error' = TileFetchFailed
    /\ UNCHANGED <<tile_coords, cache, fetch_calls, cache_writes, fetch_k,
                   tiles_data, heightmap, fetched>>
    /\ UNCHANGED <<zvars, mvars, pvars, cvars>>

InitFetch ==
    /\ ZoomIdle /\ MeshIdle /\ RouteIdle /\ CarveIdle /\ error = NoError
    /\ tile_coords \in TileLists
    /\ cache \in InitialCaches
    /\ fetch_calls = 0
    /\ http_requests = 0
    /\ cache_writes = 0
    /\ fetch_k = 1
    /\ tiles_data = <<>>
    /\ heightmap = NoHeightmap
    /\ hpc = "call"
    /\ fetched = <<>>

NextFetch ==
    \/ ClientFetchCached \/ ClientFetchMiss
    \/ ClientHttpOk \/ ClientHttpRateLimited \/ ClientHttpError

SpecFetch == InitFetch /\ [][NextFetch]_vars

\* C21: once a fetch_tile call for a tile has completed with status 200,
\* whatever the body, no later call for that tile gets to an HTTP request,
\* and every later call returns the bytes that call returned.
CacheServesLaterCalls ==
    /\ hpc = "request" => CurrentTile \notin DOMAIN fetched
    /\ \A t \in DOMAIN fetched :
          \A i \in DOMAIN fetched[t] : fetched[t][i] = fetched[t][1]

====
